---- MODULE Spec2Model ----
(***************************************************************************)
(* A model of nrqz_spots.py: the SOTA spot/alert feeds are fetched, each   *)
(* record is filtered by is_restricted (a summit-endpoint GET for the      *)
(* allow-listed associations), each survivor is formatted by               *)
(* Activation.__str__ (a second summit-endpoint GET through get_name) and  *)
(* the entry point prints both sections.                                   *)
(*                                                                         *)
(* The HTTP transport is the environment: every GET is answered by a       *)
(* response chosen nondeterministically (status and JSON body), a fresh    *)
(* one for every request.  A dictionary subscript on a key the body does   *)
(* not carry raises KeyError, which nothing in the program catches.        *)
(***************************************************************************)
EXTENDS Integers, Sequences, FiniteSets, TLC

\* Longest feed (JSON array) the spot and alert endpoints answer with.
MaxFeed == 2

SOTA_API_ROOT == "https://api2.sota.org.uk/"
ASSOC_CHECK_LIST == <<"W4V", "W7V">>
HTTP_OK == 200

(***************************************************************************)
(* The environment: what the API may answer.                               *)
(***************************************************************************)
Statuses == {HTTP_OK, 404}

\* A summit-endpoint JSON object: the keys it carries and their values.
\* (The value stored under a key that is not in keys is never read.)
SummitBodies ==
    { [keys |-> {"name"} \cap ks, name |-> "Test Peak", restrictionList |-> <<>>] :
        ks \in SUBSET {"name"} }
    \cup
    { [keys |-> ({"name"} \cap ks) \cup {"restrictionList"}, name |-> "Test Peak",
       restrictionList |-> rl] :
        ks \in SUBSET {"name"}, rl \in {<<>>, <<"NRQZ">>} }

\* An error answer carries either no summit object or (a proxy's stale copy)
\* a complete one; the status alone decides what the program does with it.
ErrorBodies ==
    { b \in SummitBodies :
        \/ b.keys = {}
        \/ b.keys = {"name", "restrictionList"} /\ b.restrictionList # <<>> }

SummitResponses ==
    [status : {HTTP_OK}, body : SummitBodies] \cup [status : {404}, body : ErrorBodies]

\* The fields of a feed item other than the callsign, which the spot feed
\* calls activatorCallsign and the alert feed activatingCallsign.
FeedItems ==
    { [associationCode |-> "W4V", summitCode |-> "SU/001",
       timeStamp |-> "2024-01-01T12:00:00Z", frequency |-> "14.060 CW",
       callsign |-> "K4ABC"],
      [associationCode |-> "W7V", summitCode |-> "RS/002",
       timeStamp |-> "2024-01-02T08:30:00Z", frequency |-> "7.032 CW",
       callsign |-> "N7XYZ"],
      [associationCode |-> "ON4", summitCode |-> "ON/010",
       timeStamp |-> "2024-01-03T17:45:00Z", frequency |-> "145.500 FM",
       callsign |-> "ON4UP"] }

SpotItem(it) ==
    [associationCode |-> it.associationCode, summitCode |-> it.summitCode,
     timeStamp |-> it.timeStamp, frequency |-> it.frequency,
     activatorCallsign |-> it.callsign]

AlertItem(it) ==
    [associationCode |-> it.associationCode, summitCode |-> it.summitCode,
     timeStamp |-> it.timeStamp, frequency |-> it.frequency,
     activatingCallsign |-> it.callsign]

SeqsUpTo(S, n) == UNION { [1..k -> S] : k \in 0..n }

SpotBodies == { [k \in DOMAIN s |-> SpotItem(s[k])] : s \in SeqsUpTo(FeedItems, MaxFeed) }
AlertBodies == { [k \in DOMAIN s |-> AlertItem(s[k])] : s \in SeqsUpTo(FeedItems, MaxFeed) }

SpotResponses == [status : Statuses, body : SpotBodies]
AlertResponses == [status : Statuses, body : AlertBodies]

\* The allow-lists a caller passes as check_assocs.
AllowLists == { <<>>, <<"W4V">>, <<"ON4">>, ASSOC_CHECK_LIST }

\* The age windows (hours) a caller passes; the entry point passes 1.
Hours == {1, 24}

\* The entry point, or a direct call of one of the two public functions.
Entries == {"main", "get_restricted_spots", "get_restricted_alerts"}

(***************************************************************************)
(* The program's functions.  A function that issues a GET takes the        *)
(* response as its last parameter and returns the URLs it requested        *)
(* (reqs), the exception it raised ("" for a normal return) and its        *)
(* return value.                                                           *)
(***************************************************************************)
InList(x, list) == \E k \in 1..Len(list) : list[k] = x

Activation(association, summit, date_time, frequencies, activator) ==
    [association |-> association, summit |-> summit, date_time |-> date_time,
     frequencies |-> frequencies, activator |-> activator]

SummitUrl(assoc, summit) ==
    SOTA_API_ROOT \o "api/summits/" \o assoc \o "/" \o summit

\* Mutant: the status is not looked at before the body is read.
get_name_any_status(assoc, summit, resp) ==
    IF "name" \in resp.body.keys
    THEN [reqs |-> <<SummitUrl(assoc, summit)>>, exc |-> "", val |-> resp.body.name]
    ELSE [reqs |-> <<SummitUrl(assoc, summit)>>, exc |-> "KeyError", val |-> ""]

\* Mutant: summit_info.get("name", "") instead of summit_info["name"].
get_name_default(assoc, summit, resp) ==
    IF resp.status = HTTP_OK
    THEN [reqs |-> <<SummitUrl(assoc, summit)>>, exc |-> "",
          val |-> IF "name" \in resp.body.keys THEN resp.body.name ELSE ""]
    ELSE [reqs |-> <<SummitUrl(assoc, summit)>>, exc |-> "", val |-> ""]

\* Mutant: the name is served from a cache, no GET is issued.
get_name_cached(assoc, summit, resp) ==
    IF resp.status = HTTP_OK
    THEN IF "name" \in resp.body.keys
         THEN [reqs |-> <<>>, exc |-> "", val |-> resp.body.name]
         ELSE [reqs |-> <<>>, exc |-> "KeyError", val |-> ""]
    ELSE [reqs |-> <<>>, exc |-> "", val |-> ""]

get_name(assoc, summit, resp) ==
    IF resp.status = HTTP_OK
    THEN IF "name" \in resp.body.keys
         THEN [reqs |-> <<SummitUrl(assoc, summit)>>, exc |-> "", val |-> resp.body.name]
         ELSE [reqs |-> <<SummitUrl(assoc, summit)>>, exc |-> "KeyError", val |-> ""]
    ELSE [reqs |-> <<SummitUrl(assoc, summit)>>, exc |-> "", val |-> ""]

\* Mutant: the allow-list is not consulted; every summit is looked up.
is_restricted_unguarded(activation, check_assocs, resp) ==
    IF resp.status = HTTP_OK
    THEN IF "restrictionList" \in resp.body.keys
         THEN [reqs |-> <<SummitUrl(activation.association, activation.summit)>>,
               exc |-> "", val |-> Len(resp.body.restrictionList) > 0]
         ELSE [reqs |-> <<SummitUrl(activation.association, activation.summit)>>,
               exc |-> "KeyError", val |-> FALSE]
    ELSE [reqs |-> <<SummitUrl(activation.association, activation.summit)>>,
          exc |-> "", val |-> FALSE]

\* Mutant: len(...) >= 0 instead of len(...) > 0.
is_restricted_ge(activation, check_assocs, resp) ==
    IF InList(activation.association, check_assocs)
    THEN IF resp.status = HTTP_OK
         THEN IF "restrictionList" \in resp.body.keys
              THEN [reqs |-> <<SummitUrl(activation.association, activation.summit)>>,
                    exc |-> "", val |-> Len(resp.body.restrictionList) >= 0]
              ELSE [reqs |-> <<SummitUrl(activation.association, activation.summit)>>,
                    exc |-> "KeyError", val |-> FALSE]
         ELSE [reqs |-> <<SummitUrl(activation.association, activation.summit)>>,
               exc |-> "", val |-> FALSE]
    ELSE [reqs |-> <<>>, exc |-> "", val |-> FALSE]

is_restricted(activation, check_assocs, resp) ==
    IF InList(activation.association, check_assocs)
    THEN IF resp.status = HTTP_OK
         THEN IF "restrictionList" \in resp.body.keys
              THEN [reqs |-> <<SummitUrl(activation.association, activation.summit)>>,
                    exc |-> "", val |-> Len(resp.body.restrictionList) > 0]
              ELSE [reqs |-> <<SummitUrl(activation.association, activation.summit)>>,
                    exc |-> "KeyError", val |-> FALSE]
         ELSE [reqs |-> <<SummitUrl(activation.association, activation.summit)>>,
               exc |-> "", val |-> FALSE]
    ELSE [reqs |-> <<>>, exc |-> "", val |-> FALSE]

\* Mutant: date_time and frequencies change places in the f-string.
Activation_str_swapped(self, name) ==
    self.association \o "/" \o self.summit \o " \"" \o name \o "\" at "
        \o self.frequencies \o ", frequencies \"" \o self.date_time
        \o "\" by " \o self.activator

Activation_str(self, name) ==
    self.association \o "/" \o self.summit \o " \"" \o name \o "\" at "
        \o self.date_time \o ", frequencies \"" \o self.frequencies
        \o "\" by " \o self.activator

\* Mutant: the body is decoded whatever the status.
get_spots_any_status(hours, resp) ==
    [reqs |-> <<SOTA_API_ROOT \o "api/spots/-" \o ToString(hours) \o "/all">>,
     exc |-> "",
     val |-> [k \in DOMAIN resp.body |->
                Activation(resp.body[k].associationCode, resp.body[k].summitCode,
                           resp.body[k].timeStamp, resp.body[k].frequency,
                           resp.body[k].activatorCallsign)]]

get_spots(hours, resp) ==
    [reqs |-> <<SOTA_API_ROOT \o "api/spots/-" \o ToString(hours) \o "/all">>,
     exc |-> "",
     val |-> IF resp.status = HTTP_OK
             THEN [k \in DOMAIN resp.body |->
                     Activation(resp.body[k].associationCode, resp.body[k].summitCode,
                                resp.body[k].timeStamp, resp.body[k].frequency,
                                resp.body[k].activatorCallsign)]
             ELSE <<>>]

get_alerts(resp) ==
    [reqs |-> <<SOTA_API_ROOT \o "api/alerts">>,
     exc |-> "",
     val |-> IF resp.status = HTTP_OK
             THEN [k \in DOMAIN resp.body |->
                     Activation(resp.body[k].associationCode, resp.body[k].summitCode,
                                resp.body[k].timeStamp, resp.body[k].frequency,
                                resp.body[k].activatingCallsign)]
             ELSE <<>>]

\* Mutant: filterfalse() instead of filter().
FilterYields_negated(verdict) == ~verdict

\* Mutant: the predicate's result is ignored and every item is yielded.
FilterYields_all(verdict) == TRUE

\* filter(): the item is yielded to the list comprehension iff the predicate
\* returned a true value.
FilterYields(verdict) == verdict

\* Mutant: an empty list prints nothing at all.
PrintSection_silent(lines) == lines

\* The entry point's "if len(xs) == 0: print('None') else: for x in xs: print(x)".
PrintSection(lines) == IF Len(lines) = 0 THEN <<"None">> ELSE lines

SPOTS_HEADER == "List of restricted spots in last hour:"
ALERTS_HEADER == "List of restricted alerts:"

(***************************************************************************)
(* State.                                                                  *)
(***************************************************************************)
VARIABLES
    entry,          \* what is run: the entry point or one public function
    check_assocs,   \* the allow-list argument
    hours,          \* the age-window argument of get_restricted_spots
    pc,             \* the position of the (single) thread of control
    section,        \* "spots" or "alerts": the get_restricted_* last entered
    feed,           \* the local list of Activation (spots / alerts)
    i,              \* how many feed items the filter iterator has consumed
    restricted,     \* the list of strings the list comprehension has built
    verdicts,       \* history: what is_restricted returned for items 1..i
    spots,          \* the caller's variable holding get_restricted_spots()
    alerts,         \* the caller's variable holding get_restricted_alerts()
    stdout,         \* the lines printed so far
    net,            \* history: the GETs issued, in order, by the
                    \* get_restricted_* last entered
    feedResp,       \* history: what the feed endpoint last answered
    call            \* history: the last call of is_restricted or get_name
                    \* made by the get_restricted_* last entered

vars == <<entry, check_assocs, hours, pc, section, feed, i, restricted, verdicts,
          spots, alerts, stdout, net, feedResp, call>>

NoResponse == [status |-> 404,
               body |-> [keys |-> {}, name |-> "Test Peak", restrictionList |-> <<>>]]

NoCall == [fn |-> "none", association |-> "", summit |-> "", resp |-> NoResponse,
           nreq |-> 0, exc |-> "", bval |-> FALSE, sval |-> ""]

\* The log entries of the GETs one call issued.
Log(reqs, fn, idx) ==
    [k \in DOMAIN reqs |-> [url |-> reqs[k], fn |-> fn, idx |-> idx]]

Init ==
    /\ entry \in Entries
    /\ check_assocs \in AllowLists
    /\ hours \in Hours
    /\ entry = "main" => check_assocs = ASSOC_CHECK_LIST /\ hours = 1
    /\ entry = "get_restricted_alerts" => hours = 1
    /\ pc = CASE entry = "main" -> "main"
              [] entry = "get_restricted_spots" -> "get_spots"
              [] OTHER -> "get_alerts"
    /\ section = "none"
    /\ feed = <<>>
    /\ i = 0
    /\ restricted = <<>>
    /\ verdicts = <<>>
    /\ spots = <<>>
    /\ alerts = <<>>
    /\ stdout = <<>>
    /\ net = <<>>
    /\ feedResp = [status |-> 0, body |-> <<>>]
    /\ call = NoCall

(***************************************************************************)
(* Actions.                                                                *)
(***************************************************************************)
\* __main__, line 149: the first header, then get_restricted_spots(1, ...).
PrintSpotsHeader ==
    /\ pc = "main"
    /\ stdout' = Append(stdout, SPOTS_HEADER)
    /\ pc' = "get_spots"
    /\ UNCHANGED <<entry, check_assocs, hours, section, feed, i, restricted, verdicts,
                   spots, alerts, net, feedResp, call>>

\* get_restricted_spots, line 102: spots = get_spots(hours).
GetSpots ==
    /\ pc = "get_spots"
    /\ \E resp \in SpotResponses :
         LET r == get_spots(hours, resp) IN
           /\ net' = Log(r.reqs, "get_spots", 0)
           /\ feedResp' = resp
           /\ feed' = r.val
    /\ section' = "spots"
    /\ i' = 0
    /\ restricted' = <<>>
    /\ verdicts' = <<>>
    /\ call' = NoCall
    /\ pc' = "filter"
    /\ UNCHANGED <<entry, check_assocs, hours, spots, alerts, stdout>>

\* get_restricted_alerts, line 141: alerts = get_alerts().
GetAlerts ==
    /\ pc = "get_alerts"
    /\ \E resp \in AlertResponses :
         LET r == get_alerts(resp) IN
           /\ net' = Log(r.reqs, "get_alerts", 0)
           /\ feedResp' = resp
           /\ feed' = r.val
    /\ section' = "alerts"
    /\ i' = 0
    /\ restricted' = <<>>
    /\ verdicts' = <<>>
    /\ call' = NoCall
    /\ pc' = "filter"
    /\ UNCHANGED <<entry, check_assocs, hours, spots, alerts, stdout>>

\* Lines 104/143: the list comprehension asks the (lazy) filter iterator for
\* its next item, and the filter calls is_restricted on the next feed item.
FilterStep ==
    /\ pc = "filter"
    /\ i < Len(feed)
    /\ \E resp \in SummitResponses :
         LET a == feed[i + 1]
             r == is_restricted(a, check_assocs, resp)
         IN
           /\ net' = net \o Log(r.reqs, "is_restricted", i + 1)
           /\ call' = [fn |-> "is_restricted", association |-> a.association,
                       summit |-> a.summit, resp |-> resp, nreq |-> Len(r.reqs),
                       exc |-> r.exc, bval |-> r.val, sval |-> ""]
           /\ IF r.exc # ""
              THEN /\ pc' = "raised"
                   /\ UNCHANGED <<i, verdicts>>
              ELSE /\ i' = i + 1
                   /\ verdicts' = Append(verdicts, r.val)
                   /\ pc' = IF FilterYields(r.val) THEN "format" ELSE "filter"
    /\ UNCHANGED <<entry, check_assocs, hours, section, feed, restricted, spots, alerts,
                   stdout, feedResp>>

\* Lines 105/144: str(spot) of the item the filter yielded; __str__ calls
\* get_name (line 21) and the string is appended to the list being built.
FormatStep ==
    /\ pc = "format"
    /\ \E resp \in SummitResponses :
         LET a == feed[i]
             r == get_name(a.association, a.summit, resp)
         IN
           /\ net' = net \o Log(r.reqs, "get_name", i)
           /\ call' = [fn |-> "get_name", association |-> a.association,
                       summit |-> a.summit, resp |-> resp, nreq |-> Len(r.reqs),
                       exc |-> r.exc, bval |-> FALSE, sval |-> r.val]
           /\ IF r.exc # ""
              THEN /\ pc' = "raised"
                   /\ UNCHANGED restricted
              ELSE /\ restricted' = Append(restricted, Activation_str(a, r.val))
                   /\ pc' = "filter"
    /\ UNCHANGED <<entry, check_assocs, hours, section, feed, i, verdicts, spots, alerts,
                   stdout, feedResp>>

\* Lines 105/144: the filter is exhausted; the list is returned to the caller.
Return ==
    /\ pc = "filter"
    /\ i = Len(feed)
    /\ IF section = "spots"
       THEN spots' = restricted /\ UNCHANGED alerts
       ELSE alerts' = restricted /\ UNCHANGED spots
    /\ pc' = IF entry = "main"
             THEN (IF section = "spots" THEN "print_spots" ELSE "print_alerts")
             ELSE "done"
    /\ UNCHANGED <<entry, check_assocs, hours, section, feed, i, restricted, verdicts,
                   stdout, net, feedResp, call>>

\* __main__, lines 151-155.
PrintSpots ==
    /\ pc = "print_spots"
    /\ stdout' = stdout \o PrintSection(spots)
    /\ pc' = "separator"
    /\ UNCHANGED <<entry, check_assocs, hours, section, feed, i, restricted, verdicts,
                   spots, alerts, net, feedResp, call>>

\* __main__, lines 156-158: the blank line, the second header, then
\* get_restricted_alerts(ASSOC_CHECK_LIST).
PrintAlertsHeader ==
    /\ pc = "separator"
    /\ stdout' = stdout \o <<"", ALERTS_HEADER>>
    /\ pc' = "get_alerts"
    /\ UNCHANGED <<entry, check_assocs, hours, section, feed, i, restricted, verdicts,
                   spots, alerts, net, feedResp, call>>

\* __main__, lines 159-163.
PrintAlerts ==
    /\ pc = "print_alerts"
    /\ stdout' = stdout \o PrintSection(alerts)
    /\ pc' = "done"
    /\ UNCHANGED <<entry, check_assocs, hours, section, feed, i, restricted, verdicts,
                   spots, alerts, net, feedResp, call>>

Next ==
    \/ PrintSpotsHeader
    \/ GetSpots
    \/ GetAlerts
    \/ FilterStep
    \/ FormatStep
    \/ Return
    \/ PrintSpots
    \/ PrintAlertsHeader
    \/ PrintAlerts

Spec == Init /\ [][Next]_vars

(***************************************************************************)
(* Vocabulary of the properties.                                           *)
(***************************************************************************)
\* What a name lookup can return in this model.
Names == {"", "Test Peak"}

\* The indices k <= n of the feed items the restriction check accepted.
RECURSIVE Accepted(_, _)
Accepted(v, n) ==
    IF n = 0 THEN <<>>
    ELSE IF v[n] THEN Append(Accepted(v, n - 1), n) ELSE Accepted(v, n - 1)

\* How many feed items have been dealt with completely (checked and, when
\* accepted, formatted).
Formatted ==
    IF pc = "format" \/ (pc = "raised" /\ call.fn = "get_name") THEN i - 1 ELSE i

\* get_restricted_spots / get_restricted_alerts has returned its list.
Returned ==
    /\ section # "none"
    /\ pc \in {"print_spots", "separator", "get_alerts", "print_alerts", "done"}

ReturnedList == IF section = "spots" THEN spots ELSE alerts

\* The summit endpoint says "HTTP 200, restrictionList non-empty".
SaysRestricted(resp) ==
    /\ resp.status = HTTP_OK
    /\ "restrictionList" \in resp.body.keys
    /\ resp.body.restrictionList # <<>>

SummitGets ==
    Cardinality({ k \in 1..Len(net) : net[k].fn \in {"is_restricted", "get_name"} })

AllowListed(n) ==
    Cardinality({ k \in 1..n : InList(feed[k].association, check_assocs) })

\* The line the specification's section 4.5 describes.
SpecLine(a, name) ==
    a.association \o "/" \o a.summit \o " \"" \o name \o "\" at " \o a.date_time
        \o ", frequencies \"" \o a.frequencies \o "\""

\* What the entry point shows for a list.
Shown(lines) == IF lines = <<>> THEN <<"None">> ELSE lines

(***************************************************************************)
(* C1: for a record whose association is not in the allow-list,            *)
(* is_restricted returns False and issues no GET, whatever the summit      *)
(* endpoint would have answered.                                           *)
(***************************************************************************)
C1_OutsideAllowListNoRequest ==
    call.fn = "is_restricted" /\ ~InList(call.association, check_assocs) =>
        /\ call.nreq = 0
        /\ call.exc = ""
        /\ call.bval = FALSE
        /\ pc \notin {"format", "raised"}
        /\ \A k \in 1..Len(net) : net[k].idx # i

C1_Witness ==
    /\ call.fn = "is_restricted"
    /\ ~InList(call.association, check_assocs)
    /\ SaysRestricted(call.resp)
    /\ call.bval = FALSE
    /\ Len(net) = 1

C3_FilterStable ==
    section # "none" =>
        LET kept == Accepted(verdicts, Formatted) IN
            /\ Len(restricted) = Len(kept)
            /\ \A k \in 1..Len(kept) :
                 \E name \in Names : restricted[k] = Activation_str(feed[kept[k]], name)
            /\ pc = "filter" /\ call.fn = "get_name" /\ call.sval = "" =>
                 /\ restricted # <<>>
                 /\ restricted[Len(restricted)] = Activation_str(feed[i], "")
            /\ Returned => Formatted = Len(feed) /\ ReturnedList = restricted

C3_Witness ==
    /\ entry = "get_restricted_spots"
    /\ pc = "done"
    /\ verdicts = <<FALSE, TRUE>>
    /\ InList(feed[1].association, check_assocs)
    /\ spots = <<Activation_str(feed[2], "")>>

(***************************************************************************)
(* C4: when the feed endpoint answers [] or a non-200 status, the list     *)
(* returned is empty, no summit-endpoint GET is issued for that feed, and  *)
(* the entry point prints None under the section's header.                 *)
(***************************************************************************)
C4_EmptyFeedPrintsNone ==
    section # "none" /\ (feedResp.status # HTTP_OK \/ feedResp.body = <<>>) =>
        /\ feed = <<>>
        /\ restricted = <<>>
        /\ SummitGets = 0
        /\ pc \notin {"format", "raised"}
        /\ Returned => ReturnedList = <<>>
        /\ entry = "main" /\ section = "spots" /\ pc = "separator" =>
             stdout = <<SPOTS_HEADER, "None">>
        /\ entry = "main" /\ section = "spots" /\ pc = "get_alerts" =>
             stdout = <<SPOTS_HEADER, "None", "", ALERTS_HEADER>>
        /\ entry = "main" /\ section = "alerts" /\ pc = "done" =>
             /\ stdout[Len(stdout) - 1] = ALERTS_HEADER
             /\ stdout[Len(stdout)] = "None"

C4_Witness ==
    /\ entry = "main"
    /\ pc = "separator"
    /\ feedResp.status # HTTP_OK
    /\ feedResp.body # <<>>
    /\ stdout = <<SPOTS_HEADER, "None">>

(***************************************************************************)
(* C5: when the summit endpoint answers a non-200 status, get_name returns *)
(* "" and is_restricted returns False; neither raises nor aborts the run.  *)
(***************************************************************************)
C5_Non200Degrades ==
    call.fn # "none" /\ call.resp.status # HTTP_OK =>
        /\ call.exc = ""
        /\ pc # "raised"
        /\ call.fn = "get_name" => call.sval = ""
        /\ call.fn = "is_restricted" => call.bval = FALSE

C5_Witness ==
    /\ call.fn = "get_name"
    /\ call.resp.status = 404
    /\ "name" \in call.resp.body.keys
    /\ call.sval = ""
    /\ pc = "filter"

C7_Original ==
    /\ section # "none" =>
         \A k \in 1..Len(restricted) :
           \E name \in Names :
             restricted[k] = SpecLine(feed[Accepted(verdicts, Formatted)[k]], name)
    /\ /\ pc = "filter"
       /\ call.fn = "get_name"
       /\ call.sval = "Test Peak"
       /\ feed[i].association = "W4V"
       => restricted[Len(restricted)] =
            "W4V/SU/001 \"Test Peak\" at 2024-01-01T12:00:00Z, frequencies \"14.060 CW\""

\* C7 as amended: the line is the stated one followed by " by " and the
\* activator's callsign, the name being what the name lookup returned.
C7_Amended ==
    /\ section # "none" =>
         \A k \in 1..Len(restricted) :
           \E name \in Names :
             LET a == feed[Accepted(verdicts, Formatted)[k]] IN
               restricted[k] = SpecLine(a, name) \o " by " \o a.activator
    /\ pc = "filter" /\ call.fn = "get_name" =>
         restricted[Len(restricted)] =
           SpecLine(feed[i], call.sval) \o " by " \o feed[i].activator
    /\ /\ pc = "filter"
       /\ call.fn = "get_name"
       /\ call.sval = "Test Peak"
       /\ feed[i].association = "W4V"
       => restricted[Len(restricted)] =
            "W4V/SU/001 \"Test Peak\" at 2024-01-01T12:00:00Z, frequencies \"14.060 CW\" by K4ABC"

C7_Witness ==
    /\ entry = "main"
    /\ pc = "done"
    /\ \E k \in 1..Len(stdout) :
         stdout[k] =
           "W4V/SU/001 \"Test Peak\" at 2024-01-01T12:00:00Z, frequencies \"14.060 CW\" by K4ABC"

(***************************************************************************)
(* C8: the entry point prints the spots header, then every restricted      *)
(* spot line or the single line None, then a blank line, then the alerts   *)
(* header, then every restricted alert line or None; the alert feed is     *)
(* requested only after all the spot output; None is printed for a section *)
(* iff its list is empty.                                                  *)
(***************************************************************************)
C8_ConsoleOrder ==
    IF entry # "main" THEN stdout = <<>>
    ELSE
      /\ stdout =
           CASE pc = "main" -> <<>>
             [] pc = "get_spots" -> <<SPOTS_HEADER>>
             [] section = "spots" /\ pc \in {"filter", "format", "raised", "print_spots"} ->
                  <<SPOTS_HEADER>>
             [] section = "spots" /\ pc = "separator" ->
                  <<SPOTS_HEADER>> \o Shown(spots)
             [] section = "spots" /\ pc = "get_alerts" ->
                  <<SPOTS_HEADER>> \o Shown(spots) \o <<"", ALERTS_HEADER>>
             [] section = "alerts" /\ pc \in {"filter", "format", "raised", "print_alerts"} ->
                  <<SPOTS_HEADER>> \o Shown(spots) \o <<"", ALERTS_HEADER>>
             [] OTHER ->
                  <<SPOTS_HEADER>> \o Shown(spots) \o <<"", ALERTS_HEADER>> \o Shown(alerts)
      /\ (\E k \in 1..Len(net) : net[k].fn = "get_alerts") =>
           /\ Len(stdout) >= Len(Shown(spots)) + 3
           /\ SubSeq(stdout, 1, Len(Shown(spots)) + 3) =
                <<SPOTS_HEADER>> \o Shown(spots) \o <<"", ALERTS_HEADER>>
      /\ pc = "done" =>
           /\ section = "alerts"
           /\ (stdout[2] = "None") <=> (spots = <<>>)
           /\ (stdout[Len(stdout)] = "None") <=> (alerts = <<>>)

C8_Witness ==
    /\ entry = "main"
    /\ pc = "done"
    /\ Len(spots) = 2
    /\ spots[1] # spots[2]
    /\ alerts = <<>>
    /\ Len(stdout) = 6

(***************************************************************************)
(* C9: within get_restricted_spots / get_restricted_alerts the GETs are    *)
(* issued one at a time in feed order: the feed first, then for each       *)
(* record its restriction check (if allow-listed) and, if it survives, its *)
(* name lookup, both before any GET for the next record; no name lookup    *)
(* is issued for a record whose restriction check returned False.          *)
(***************************************************************************)
C9_Sequential ==
    section # "none" =>
        /\ Len(net) >= 1
        /\ net[1].fn = (IF section = "spots" THEN "get_spots" ELSE "get_alerts")
        /\ \A k \in 2..Len(net) :
             /\ net[k].fn \in {"is_restricted", "get_name"}
             /\ net[k].idx \in 1..Len(feed)
        /\ \A j, k \in 2..Len(net) :
             j < k => \/ net[j].idx < net[k].idx
                      \/ /\ net[j].idx = net[k].idx
                         /\ net[j].fn = "is_restricted"
                         /\ net[k].fn = "get_name"
                         /\ k = j + 1
        /\ \A k \in 2..Len(net) :
             net[k].fn = "get_name" =>
                 /\ net[k].idx <= Len(verdicts)
                 /\ verdicts[net[k].idx]
                 /\ net[k - 1].fn = "is_restricted"
                 /\ net[k - 1].idx = net[k].idx
        /\ \A k \in 2..Len(net) :
             \A n \in 1..(net[k].idx - 1) :
                 /\ InList(feed[n].association, check_assocs) =>
                      \E j \in 2..(k - 1) : net[j].fn = "is_restricted" /\ net[j].idx = n
                 /\ verdicts[n] =>
                      \E j \in 2..(k - 1) : net[j].fn = "get_name" /\ net[j].idx = n

C9_Witness ==
    /\ pc = "done"
    /\ Len(feed) = 2
    /\ feed[1] # feed[2]
    /\ Len(net) = 5
    /\ net[3].fn = "get_name"
    /\ net[4].fn = "is_restricted"

(***************************************************************************)
(* C10: nothing is cached: the number of summit-endpoint GETs of one run   *)
(* of get_restricted_* is the number of allow-listed feed records plus the *)
(* number of survivors, so k records naming the same restricted summit     *)
(* cause 2k GETs, and one record's check and name lookup are two GETs.     *)
(***************************************************************************)
C10_NoCaching ==
    section # "none" =>
        /\ SummitGets = AllowListed(i) + Len(restricted) + (IF pc = "raised" THEN 1 ELSE 0)
        /\ Returned => SummitGets = AllowListed(Len(feed)) + Len(ReturnedList)
        /\ Returned /\ (\A k \in 1..Len(feed) : verdicts[k]) => SummitGets = 2 * Len(feed)
        /\ \A k \in 2..Len(net) :
             /\ net[k].url = SummitUrl(feed[net[k].idx].association, feed[net[k].idx].summit)
             /\ net[k].fn = "get_name" => net[k - 1].url = net[k].url

C10_Witness ==
    /\ pc = "done"
    /\ Len(feed) = 2
    /\ feed[1] = feed[2]
    /\ verdicts = <<TRUE, TRUE>>
    /\ SummitGets = 4
    /\ call.fn = "get_name"
    /\ call.resp.status = 404

====
